---- MODULE Spec2Model ----
(***************************************************************************)
(* Model of Example/Source/Tools.inl of sequentity: the example tools      *)
(* (select, translate, rotate, scale, scrub) and the TranslateContext      *)
(* state machine, acting on an entity-component registry that holds the    *)
(* Sequentity tracks, channels and events.                                 *)
(*                                                                         *)
(* One action models one whole tool execution (every `each` loop of the    *)
(* function, in an order of the registry's choosing) or one whole method   *)
(* of TranslateContext.  The components the application assigns between    *)
(* tool executions (Activated, Active, Deactivated, Abort,                 *)
(* InputPosition2D) are driven by environment actions.                     *)
(***************************************************************************)
EXTENDS Integers, Sequences, FiniteSets, TLC

(***************************************************************************)
(* Bounds of the model.                                                    *)
(***************************************************************************)
\* Activated.time and Active.time range over 0..MaxTime
MaxTime == 1
\* at most MaxEvents events are kept in the whole registry
MaxEvents == 2
\* at most MaxLen entries in the payload list of one event
MaxLen == 2
\* |MoveIntent.x| and |current_time| stay within MaxAbs
MaxAbs == 2

(***************************************************************************)
(* The scene: entities and the components they carry for their lifetime.   *)
(***************************************************************************)
Entities == {"a", "b"}
Null == "null"

Components ==
    [e \in Entities |->
        IF e = "a" THEN {"Name", "Color", "Position", "Orientation", "Size"}
                   ELSE {"Name", "Color", "Position", "Orientation"}]

NameOf == [e \in Entities |-> e]
ColorOf == [e \in Entities |-> IF e = "a" THEN "red" ELSE "blue"]

Times == 0 .. MaxTime

\* struct Position { int x; int y; }
Pos(x, y) == [x |-> x, y |-> y]

\* struct InputPosition2D { absolute, relative, delta }
InputPosition2D(rel, delta) ==
    [absolute |-> Pos(0, 0), relative |-> Pos(rel, 0), delta |-> Pos(delta, 0)]

NoInput == [absolute |-> Pos(0, 0), relative |-> Pos(0, 0), delta |-> Pos(0, 0), none |-> TRUE]

\* the inputs the environment delivers
Inputs == {InputPosition2D(0 - 15, 1)}

\* struct Activated / Active / Deactivated { int time; }, at most one per entity
NoTag == [phase |-> "None", time |-> 0]

EventTypes == {"TranslateEvent", "RotateEvent", "ScaleEvent"}

NoTrack == [label |-> "", none |-> TRUE]
NoIntent == [x |-> 0, y |-> 0, none |-> TRUE]

\* enum State_ of TranslateContext
Tools == {"Select", "Translate", "Rotate", "Scale", "Scrub", "Context"}

CtxStates == {"_None", "_Activated", "_Active", "_Deactivated"}

VARIABLES
    tool,           \* the tool the application executes: a ToolType, or the TranslateContext
    tag,            \* entity -> Activated / Active / Deactivated component
    input,          \* entity -> InputPosition2D component, or NoInput
    abort,          \* entities with the Abort component
    track,          \* entity -> Sequentity::Track component, or NoTrack
    selected,       \* entities with the Selected component
    moveIntent,     \* entity -> MoveIntent component, or NoIntent
    hovered,        \* entities with the Hovered component
    tooltip,        \* entities with the Tooltip component
    current_time,   \* Sequentity::State::current_time
    previous_time,  \* static int previous_time of ScrubTool
    ctx,            \* the fields of the TranslateContext object
    crashed,        \* the process was terminated by undefined behaviour
    last            \* the operation executed last and its arguments

vars == <<tool, tag, input, abort, track, selected, moveIntent, hovered,
          tooltip, current_time, previous_time, ctx, crashed, last>>

(***************************************************************************)
(* Integer division of C++: truncation toward zero.                        *)
(***************************************************************************)
TruncDiv(a, b) ==
    IF a >= 0 THEN a \div b ELSE 0 - ((0 - a) \div b)

(***************************************************************************)
(* The Sequentity library calls used by the tools.                         *)
(***************************************************************************)
NewTrack(label, color) == [label |-> label, color |-> color, channels |-> <<>>]

HasChannel(t, type) == type \in DOMAIN t.channels

NewChannel == [label |-> "", color |-> "", events |-> <<>>]

\* std::unordered_map::operator[]: the entry, default-constructed if absent
ChannelsAt(channels, type) ==
    IF type \in DOMAIN channels
    THEN channels
    ELSE [k \in DOMAIN channels \cup {type} |->
            IF k = type THEN NewChannel ELSE channels[k]]

PushChannel(t, type) == [t EXCEPT !.channels = ChannelsAt(t.channels, type)]

PushEvent(channel, event) == [channel EXCEPT !.events = Append(channel.events, event)]

Event(time, length, color, type, data) ==
    [time |-> time, length |-> length, color |-> color, type |-> type, data |-> data]

\* channel.events.back()
Back(events) == events[Len(events)]


(***************************************************************************)
(* The registry state a tool execution reads and writes, threaded through  *)
(* the iterations of its loops.  `ub` records that the execution ran into  *)
(* undefined behaviour.                                                    *)
(***************************************************************************)
Reg ==
    [track |-> track, selected |-> selected, moveIntent |-> moveIntent,
     current_time |-> current_time, previous_time |-> previous_time,
     crashed |-> crashed, ub |-> FALSE]

\* How undefined behaviour resolves in one execution: Registry.get of a
\* component the entity lacks either terminates the process or reads the
\* instance of some other entity; Registry.assign of a component the entity
\* already has terminates, keeps the old instance or stores the new one.
UBChoices ==
    [track : Entities \cup {"crash"}, intent : {"crash", "old", "new"}]

\* The orders in which a view can visit the entities of S
Orders(S) ==
    {o \in [1 .. Cardinality(S) -> S] : \A i, j \in DOMAIN o : i # j => o[i] # o[j]}

\* Registry.get<Sequentity::Track>(e): the entity whose Track instance is read
TrackOwner(reg, e, u) ==
    IF reg.track[e] # NoTrack THEN e
    ELSE IF u.track \in Entities /\ reg.track[u.track] # NoTrack THEN u.track
    ELSE "crash"

\* Registry.assign<MoveIntent>(e, x, y)
AssignMoveIntent(reg, e, x, y, u) ==
    IF reg.moveIntent[e] = NoIntent
    THEN [reg EXCEPT !.moveIntent[e] = [x |-> x, y |-> y]]
    ELSE IF u.intent = "crash" THEN [reg EXCEPT !.crashed = TRUE, !.ub = TRUE]
    ELSE IF u.intent = "old" THEN [reg EXCEPT !.ub = TRUE]
    ELSE [reg EXCEPT !.moveIntent[e] = [x |-> x, y |-> y], !.ub = TRUE]

\* size() > index, with size_t size and int index: a negative index converts
\* to a value above any size
SizeGreater(size, index) == index >= 0 /\ size > index

\* Update existing data / append new data, then event.length = index + 1
ExtendEvent(event, field, index, value) ==
    LET list == event.data[field]
        new  == IF SizeGreater(Len(list), index)
                THEN [list EXCEPT ![index + 1] = value]
                ELSE Append(list, value)
    IN  [event EXCEPT !.data[field] = new, !.length = index + 1]

\* Replace the last event of channel `type` of the track of `owner`
SetBack(reg, owner, type, event) ==
    LET n == Len(reg.track[owner].channels[type].events)
    IN  [reg EXCEPT !.track[owner].channels[type].events[n] = event]

(***************************************************************************)
(* SelectTool                                                              *)
(***************************************************************************)
SelectView == {e \in Entities : "Name" \in Components[e] /\ tag[e].phase = "Activated"}

SelectToolPressKeep(reg, e) == [reg EXCEPT !.selected = reg.selected \cup {e}]

SelectToolPress(reg, e) == [reg EXCEPT !.selected = {e}]

(***************************************************************************)
(* TranslateTool                                                           *)
(***************************************************************************)
TranslatePressView ==
    {e \in Entities : /\ {"Name", "Color", "Position"} \subseteq Components[e]
                      /\ tag[e].phase = "Activated"
                      /\ input[e] # NoInput}

TranslateHoldView ==
    {e \in Entities : tag[e].phase = "Active" /\ input[e] # NoInput /\ e \notin abort}

TranslateToolPressSameTime(reg, e, record) ==
    LET r1 == [reg EXCEPT !.selected = {e}]
        t0 == IF r1.track[e] = NoTrack THEN NewTrack(NameOf[e], ColorOf[e]) ELSE r1.track[e]
        data == [offset |-> Pos(0, 0), positions |-> <<Pos(0, 0)>>]
        has_channel == HasChannel(t0, "TranslateEvent")
        t1 == PushChannel(t0, "TranslateEvent")
        t2 == IF ~has_channel
              THEN [t1 EXCEPT !.channels["TranslateEvent"].label = "Translate",
                              !.channels["TranslateEvent"].color = "hsv(0.0,0.75,0.75)"]
              ELSE t1
        t3 == [t2 EXCEPT !.channels["TranslateEvent"] =
                  PushEvent(@, Event(tag[e].time, 1, ColorOf[e], "TranslateEvent", data))]
    IN  IF ~record THEN r1 ELSE [r1 EXCEPT !.track[e] = t3]

TranslateToolPress(reg, e, record) ==
    LET r1 == [reg EXCEPT !.selected = {e}]
        t0 == IF r1.track[e] = NoTrack THEN NewTrack(NameOf[e], ColorOf[e]) ELSE r1.track[e]
        data == [offset |-> Pos(0, 0), positions |-> <<Pos(0, 0)>>]
        has_channel == HasChannel(t0, "TranslateEvent")
        t1 == PushChannel(t0, "TranslateEvent")
        t2 == IF ~has_channel
              THEN [t1 EXCEPT !.channels["TranslateEvent"].label = "Translate",
                              !.channels["TranslateEvent"].color = "hsv(0.0,0.75,0.75)"]
              ELSE t1
        t3 == [t2 EXCEPT !.channels["TranslateEvent"] =
                  PushEvent(@, Event(tag[e].time + 1, 1, ColorOf[e], "TranslateEvent", data))]
    IN  IF ~record THEN r1 ELSE [r1 EXCEPT !.track[e] = t3]

TranslateToolHoldBoth(reg, e, record, u) ==
    LET owner == TrackOwner(reg, e, u)
        rub   == IF owner = e THEN reg ELSE [reg EXCEPT !.ub = TRUE]
        event == Back(rub.track[owner].channels["TranslateEvent"].events)
        index == tag[e].time - event.time + 1
        moved == AssignMoveIntent(rub, e, input[e].delta.x, input[e].delta.y, u)
    IN  IF ~record THEN AssignMoveIntent(reg, e, input[e].delta.x, input[e].delta.y, u)
        ELSE IF owner = "crash" THEN [reg EXCEPT !.crashed = TRUE, !.ub = TRUE]
        ELSE IF ~HasChannel(rub.track[owner], "TranslateEvent") THEN rub
        ELSE SetBack(moved, owner, "TranslateEvent",
                     ExtendEvent(event, "positions", index, input[e].delta))

TranslateToolHold(reg, e, record, u) ==
    LET owner == TrackOwner(reg, e, u)
        rub   == IF owner = e THEN reg ELSE [reg EXCEPT !.ub = TRUE]
        event == Back(rub.track[owner].channels["TranslateEvent"].events)
        index == tag[e].time - event.time + 1
    IN  IF ~record THEN AssignMoveIntent(reg, e, input[e].delta.x, input[e].delta.y, u)
        ELSE IF owner = "crash" THEN [reg EXCEPT !.crashed = TRUE, !.ub = TRUE]
        ELSE IF ~HasChannel(rub.track[owner], "TranslateEvent") THEN rub
        ELSE SetBack(rub, owner, "TranslateEvent",
                     ExtendEvent(event, "positions", index, input[e].delta))


(***************************************************************************)
(* RotateTool and ScaleTool (the `record` argument is not read by either)  *)
(***************************************************************************)
RotatePressView ==
    {e \in Entities : /\ {"Name", "Color", "Orientation"} \subseteq Components[e]
                      /\ tag[e].phase = "Activated"
                      /\ input[e] # NoInput}

RotateHoldView(reg) ==
    {e \in Entities : /\ "Name" \in Components[e]
                      /\ tag[e].phase = "Active"
                      /\ input[e] # NoInput
                      /\ reg.track[e] # NoTrack
                      /\ e \notin abort}

RotateToolPress(reg, e) ==
    LET data == [orientations |-> <<0>>]
        t0 == IF reg.track[e] = NoTrack THEN NewTrack(NameOf[e], ColorOf[e]) ELSE reg.track[e]
        has_channel == "RotateEvent" \in DOMAIN t0.channels
        t1 == [t0 EXCEPT !.channels = ChannelsAt(@, "RotateEvent")]
        t2 == IF ~has_channel
              THEN [t1 EXCEPT !.channels["RotateEvent"].label = "Rotate",
                              !.channels["RotateEvent"].color = "hsv(0.33,0.75,0.75)"]
              ELSE t1
        t3 == [t2 EXCEPT !.channels["RotateEvent"] =
                  PushEvent(@, Event(tag[e].time + 1, 1, ColorOf[e], "RotateEvent", data))]
    IN  [reg EXCEPT !.track[e] = t3, !.selected = {e}]

RotateToolHoldCreates(reg, e) ==
    LET event == Back(reg.track[e].channels["RotateEvent"].events)
        index == tag[e].time - event.time + 1
    IN  IF ~("RotateEvent" \in DOMAIN reg.track[e].channels)
        THEN [reg EXCEPT !.track[e].channels = ChannelsAt(@, "RotateEvent")]
        ELSE SetBack(reg, e, "RotateEvent",
                     ExtendEvent(event, "orientations", index, input[e].delta.x))

RotateToolHold(reg, e) ==
    LET event == Back(reg.track[e].channels["RotateEvent"].events)
        index == tag[e].time - event.time + 1
    IN  IF ~("RotateEvent" \in DOMAIN reg.track[e].channels) THEN reg
        ELSE SetBack(reg, e, "RotateEvent",
                     ExtendEvent(event, "orientations", index, input[e].delta.x))

ScalePressView ==
    {e \in Entities : /\ {"Name", "Color", "Size"} \subseteq Components[e]
                      /\ tag[e].phase = "Activated"
                      /\ input[e] # NoInput}

ScaleHoldView(reg) == RotateHoldView(reg)

ScaleToolPress(reg, e) ==
    LET data == [scales |-> <<0>>]
        t0 == IF reg.track[e] = NoTrack THEN NewTrack(NameOf[e], ColorOf[e]) ELSE reg.track[e]
        has_channel == "ScaleEvent" \in DOMAIN t0.channels
        t1 == [t0 EXCEPT !.channels = ChannelsAt(@, "ScaleEvent")]
        t2 == IF ~has_channel
              THEN [t1 EXCEPT !.channels["ScaleEvent"].label = "Scale",
                              !.channels["ScaleEvent"].color = "hsv(0.52,0.75,0.50)"]
              ELSE t1
        t3 == [t2 EXCEPT !.channels["ScaleEvent"] =
                  PushEvent(@, Event(tag[e].time + 1, 1, ColorOf[e], "ScaleEvent", data))]
    IN  [reg EXCEPT !.track[e] = t3, !.selected = {e}]

ScaleToolHold(reg, e) ==
    LET event == Back(reg.track[e].channels["ScaleEvent"].events)
        index == tag[e].time - event.time + 1
    IN  IF ~("ScaleEvent" \in DOMAIN reg.track[e].channels) THEN reg
        ELSE SetBack(reg, e, "ScaleEvent",
                     ExtendEvent(event, "scales", index, input[e].delta.x))

(***************************************************************************)
(* ScrubTool                                                               *)
(***************************************************************************)
ScrubPressView == {e \in Entities : tag[e].phase = "Activated" /\ input[e] # NoInput}

ScrubHoldView == {e \in Entities : tag[e].phase = "Active" /\ input[e] # NoInput}

ScrubToolPress(reg, e) == [reg EXCEPT !.previous_time = reg.current_time]

ScrubToolHoldAccumulate(reg, e) ==
    [reg EXCEPT !.current_time = reg.current_time + TruncDiv(input[e].relative.x, 10)]

ScrubToolHold(reg, e) ==
    [reg EXCEPT !.current_time = reg.previous_time + TruncDiv(input[e].relative.x, 10)]

(***************************************************************************)
(* Release: every tool but SelectTool ends with a loop over the            *)
(* Deactivated entities whose body is empty.                               *)
(***************************************************************************)
ReleaseView == {e \in Entities : tag[e].phase = "Deactivated"}

\* a release that closes the events of the entity at the time of the release
TranslateToolReleaseCloses(reg, e) ==
    IF reg.track[e] = NoTrack THEN reg
    ELSE LET chs == reg.track[e].channels
             close(ev) == [ev EXCEPT !.length = tag[e].time - ev.time + 1]
         IN  [reg EXCEPT !.track[e].channels =
                 [k \in DOMAIN chs |->
                    [chs[k] EXCEPT !.events =
                        [i \in 1 .. Len(chs[k].events) |-> close(chs[k].events[i])]]]]

TranslateToolRelease(reg, e) == reg

RotateToolRelease(reg, e) == reg

ScaleToolRelease(reg, e) == reg

ScrubToolRelease(reg, e) == reg

(***************************************************************************)
(* view.each(body): the body runs for the entities of the view in the      *)
(* order `order`; a terminated process runs nothing further.               *)
(***************************************************************************)
Body(kind, record, u, reg, e) ==
    CASE kind = "SelectPress"    -> SelectToolPress(reg, e)
      [] kind = "TranslatePress" -> TranslateToolPress(reg, e, record)
      [] kind = "TranslateHold"  -> TranslateToolHold(reg, e, record, u)
      [] kind = "RotatePress"    -> RotateToolPress(reg, e)
      [] kind = "RotateHold"     -> RotateToolHold(reg, e)
      [] kind = "ScalePress"     -> ScaleToolPress(reg, e)
      [] kind = "ScaleHold"      -> ScaleToolHold(reg, e)
      [] kind = "ScrubPress"     -> ScrubToolPress(reg, e)
      [] kind = "ScrubHold"      -> ScrubToolHold(reg, e)
      [] kind = "TranslateRelease" -> TranslateToolRelease(reg, e)
      [] kind = "RotateRelease"    -> RotateToolRelease(reg, e)
      [] kind = "ScaleRelease"     -> ScaleToolRelease(reg, e)
      [] kind = "ScrubRelease"     -> ScrubToolRelease(reg, e)

RECURSIVE Each(_, _, _, _, _)
Each(kind, record, u, reg, order) ==
    IF order = <<>> \/ reg.crashed
    THEN reg
    ELSE Each(kind, record, u, Body(kind, record, u, reg, Head(order)), Tail(order))

(***************************************************************************)
(* What keeps the model finite.                                            *)
(***************************************************************************)
RECURSIVE SumLen(_, _)
SumLen(f, S) ==
    IF S = {} THEN 0
    ELSE LET k == CHOOSE x \in S : TRUE IN Len(f[k].events) + SumLen(f, S \ {k})

EventCount(t) == IF t = NoTrack THEN 0 ELSE SumLen(t.channels, DOMAIN t.channels)

RECURSIVE TotalEvents(_, _)
TotalEvents(tr, S) ==
    IF S = {} THEN 0
    ELSE LET e == CHOOSE x \in S : TRUE IN EventCount(tr[e]) + TotalEvents(tr, S \ {e})

\* number of entries of the payload of an event
PayloadSize(event) ==
    CASE event.type = "TranslateEvent" /\ "positions" \in DOMAIN event.data
            -> Len(event.data.positions)
      [] event.type = "RotateEvent" -> Len(event.data.orientations)
      [] event.type = "ScaleEvent"  -> Len(event.data.scales)
      [] OTHER -> Cardinality(DOMAIN event.data.input)

EventsOf(t) ==
    IF t = NoTrack THEN {}
    ELSE UNION {{t.channels[k].events[i] : i \in 1 .. Len(t.channels[k].events)} :
                    k \in DOMAIN t.channels}

Abs(n) == IF n < 0 THEN 0 - n ELSE n

WithinBounds(reg) ==
    /\ TotalEvents(reg.track, Entities) <= MaxEvents
    /\ \A e \in Entities : \A ev \in EventsOf(reg.track[e]) : PayloadSize(ev) <= MaxLen
    /\ \A e \in Entities : Abs(reg.moveIntent[e].x) <= MaxAbs
    /\ Abs(reg.current_time) <= MaxAbs

Commit(reg) ==
    /\ track' = reg.track
    /\ selected' = reg.selected
    /\ moveIntent' = reg.moveIntent
    /\ current_time' = reg.current_time
    /\ previous_time' = reg.previous_time
    /\ crashed' = reg.crashed

Op(name, record, time, ub) == [op |-> name, record |-> record, time |-> time, ub |-> ub]

(***************************************************************************)
(* The tools: one action per execution of Tool::execute(record).           *)
(***************************************************************************)
SelectTool(record) ==
    /\ ~crashed
    /\ tool = "Select"
    /\ \E o \in Orders(SelectView) :
         LET r == Each("SelectPress", record, [track |-> "crash", intent |-> "crash"], Reg, o)
         IN  Commit(r) /\ last' = Op("SelectTool", record, 0, r.ub)
    /\ UNCHANGED <<tool, tag, input, abort, hovered, tooltip, ctx>>

TranslateTool(record) ==
    /\ ~crashed
    /\ tool = "Translate"
    /\ \E o1 \in Orders(TranslatePressView), o2 \in Orders(TranslateHoldView),
          o3 \in Orders(ReleaseView), u \in UBChoices :
         LET r1 == Each("TranslatePress", record, u, Reg, o1)
             r2 == Each("TranslateHold", record, u, r1, o2)
             r3 == Each("TranslateRelease", record, u, r2, o3)
         IN  /\ WithinBounds(r3)
             /\ Commit(r3)
             /\ last' = Op("TranslateTool", record, 0, r3.ub)
    /\ UNCHANGED <<tool, tag, input, abort, hovered, tooltip, ctx>>

RotateTool(record) ==
    /\ ~crashed
    /\ tool = "Rotate"
    /\ \E o1 \in Orders(RotatePressView) :
         LET r1 == Each("RotatePress", record, [track |-> "crash", intent |-> "crash"], Reg, o1)
         IN  \E o2 \in Orders(RotateHoldView(r1)), o3 \in Orders(ReleaseView) :
               LET r2 == Each("RotateHold", record, [track |-> "crash", intent |-> "crash"], r1, o2)
                   r3 == Each("RotateRelease", record, [track |-> "crash", intent |-> "crash"], r2, o3)
               IN  /\ WithinBounds(r3)
                   /\ Commit(r3)
                   /\ last' = Op("RotateTool", record, 0, r3.ub)
    /\ UNCHANGED <<tool, tag, input, abort, hovered, tooltip, ctx>>

ScaleTool(record) ==
    /\ ~crashed
    /\ tool = "Scale"
    /\ \E o1 \in Orders(ScalePressView) :
         LET r1 == Each("ScalePress", record, [track |-> "crash", intent |-> "crash"], Reg, o1)
         IN  \E o2 \in Orders(ScaleHoldView(r1)), o3 \in Orders(ReleaseView) :
               LET r2 == Each("ScaleHold", record, [track |-> "crash", intent |-> "crash"], r1, o2)
                   r3 == Each("ScaleRelease", record, [track |-> "crash", intent |-> "crash"], r2, o3)
               IN  /\ WithinBounds(r3)
                   /\ Commit(r3)
                   /\ last' = Op("ScaleTool", record, 0, r3.ub)
    /\ UNCHANGED <<tool, tag, input, abort, hovered, tooltip, ctx>>

ScrubTool(record) ==
    /\ ~crashed
    /\ tool = "Scrub"
    /\ \E o1 \in Orders(ScrubPressView), o2 \in Orders(ScrubHoldView),
          o3 \in Orders(ReleaseView) :
         LET r1 == Each("ScrubPress", record, [track |-> "crash", intent |-> "crash"], Reg, o1)
             r2 == Each("ScrubHold", record, [track |-> "crash", intent |-> "crash"], r1, o2)
             r3 == Each("ScrubRelease", record, [track |-> "crash", intent |-> "crash"], r2, o3)
         IN  /\ WithinBounds(r3)
             /\ Commit(r3)
             /\ last' = Op("ScrubTool", record, 0, r3.ub)
    /\ UNCHANGED <<tool, tag, input, abort, hovered, tooltip, ctx>>


(***************************************************************************)
(* TranslateContext                                                        *)
(***************************************************************************)
\* Registry.valid(_entity)
Valid(e) == e \in Entities

\* _entity = entt::null; _state = _Deactivated
FinishKeepEntity(c) == [c EXCEPT !._state = "_Deactivated"]

Finish(c) == [c EXCEPT !._entity = Null, !._state = "_Deactivated"]

\* if (_state == _Active) finish();
TeardownAlways(c) == Finish(c)

Teardown(c) == IF c._state = "_Active" THEN Finish(c) ELSE c

\* begin(entity)
CtxBegin(e) ==
    /\ ~crashed
    /\ tool = "Context"
    /\ ctx' = [ctx EXCEPT !._entity = e, !._state = "_Activated"]
    /\ selected' = {e}
    /\ last' = Op("begin", FALSE, 0, FALSE)
    /\ UNCHANGED <<tool, tag, input, abort, track, moveIntent, hovered, tooltip,
                   current_time, previous_time, crashed>>

\* update(input), on the context c and the MoveIntent components mi
UpdateIntent(mi, e, in) ==
    IF mi[e] = NoIntent
    THEN [mi EXCEPT ![e] = [x |-> in.delta.x, y |-> in.delta.y]]
    ELSE [mi EXCEPT ![e] = [x |-> @.x + in.delta.x, y |-> @.y + in.delta.y]]

UpdateCtx(c, in) ==
    IF Valid(c._entity)
    THEN [c EXCEPT !._state = "_Active", !._input = in]
    ELSE [c EXCEPT !._state = "_None"]

CtxUpdate(in) ==
    /\ ~crashed
    /\ tool = "Context"
    /\ ctx' = UpdateCtx(ctx, in)
    /\ IF Valid(ctx._entity)
       THEN /\ moveIntent' = UpdateIntent(moveIntent, ctx._entity, in)
            /\ Abs(moveIntent'[ctx._entity].x) <= MaxAbs
            /\ tooltip' = {}
       ELSE /\ moveIntent' = moveIntent
            /\ tooltip' = hovered
    /\ last' = Op("update", FALSE, 0, FALSE)
    /\ UNCHANGED <<tool, tag, input, abort, track, selected, hovered,
                   current_time, previous_time, crashed>>

\* update(entity, input): begin(entity); update(input);
CtxUpdateEntity(e, in) ==
    /\ ~crashed
    /\ tool = "Context"
    /\ ctx' = UpdateCtx([ctx EXCEPT !._entity = e, !._state = "_Activated"], in)
    /\ selected' = {e}
    /\ moveIntent' = UpdateIntent(moveIntent, e, in)
    /\ Abs(moveIntent'[e].x) <= MaxAbs
    /\ tooltip' = {}
    /\ last' = Op("update_entity", FALSE, 0, FALSE)
    /\ UNCHANGED <<tool, tag, input, abort, track, hovered,
                   current_time, previous_time, crashed>>

\* record(time), branch _state == _Activated
RecordActivated(reg, c, time) ==
    LET e  == c._entity
        t0 == IF reg.track[e] = NoTrack THEN NewTrack(NameOf[e], ColorOf[e]) ELSE reg.track[e]
        data == [type |-> "Translate", input |-> <<>>]
        new_channel == ~HasChannel(t0, "TranslateEvent")
        t1 == PushChannel(t0, "TranslateEvent")
        t2 == IF new_channel
              THEN [t1 EXCEPT !.channels["TranslateEvent"].label = "Translate",
                              !.channels["TranslateEvent"].color = "hsv(0.0,0.75,0.75)"]
              ELSE t1
        t3 == [t2 EXCEPT !.channels["TranslateEvent"] =
                  PushEvent(@, Event(time, 1, ColorOf[e], "TranslateEvent", data))]
    IN  [reg EXCEPT !.track[e] = t3]

\* data->input[time] = _input
MapSet(m, k, v) == [x \in DOMAIN m \cup {k} |-> IF x = k THEN v ELSE m[x]]

\* record(time), branch _state == _Active, past the abort check
RecordActive(reg, c, time, u) ==
    LET owner == TrackOwner(reg, c._entity, u)
        rub   == IF owner = c._entity THEN reg ELSE [reg EXCEPT !.ub = TRUE]
        event == Back(rub.track[owner].channels["TranslateEvent"].events)
        new   == [event EXCEPT !.data.input = MapSet(@, time, c._input),
                               !.length = time - event.time + 1]
    IN  IF owner = "crash" THEN [reg EXCEPT !.crashed = TRUE, !.ub = TRUE]
        ELSE IF ~("TranslateEvent" \in DOMAIN rub.track[owner].channels) THEN rub
        ELSE SetBack(rub, owner, "TranslateEvent", new)

\* if (_begin_time > time) { _state = _None; return; }
AbortsNever(c, time) == FALSE

Aborts(c, time) == c._begin_time > time

CtxRecord(time) ==
    /\ ~crashed
    /\ tool = "Context"
    /\ \E u \in UBChoices :
         LET r == CASE ctx._state = "_Activated" -> RecordActivated(Reg, ctx, time)
                    [] ctx._state = "_Active" /\ ~Aborts(ctx, time) -> RecordActive(Reg, ctx, time, u)
                    [] OTHER -> Reg
         IN  /\ WithinBounds(r)
             /\ Commit(r)
             /\ last' = Op("record", FALSE, time, r.ub)
    /\ ctx' = CASE ctx._state = "_Activated" -> [ctx EXCEPT !._begin_time = time]
                [] ctx._state = "_Active" /\ Aborts(ctx, time) -> [ctx EXCEPT !._state = "_None"]
                [] OTHER -> ctx
    /\ UNCHANGED <<tool, tag, input, abort, hovered, tooltip>>

CtxFinish ==
    /\ ~crashed
    /\ tool = "Context"
    /\ ctx' = Finish(ctx)
    /\ last' = Op("finish", FALSE, 0, FALSE)
    /\ UNCHANGED <<tool, tag, input, abort, track, selected, moveIntent, hovered,
                   tooltip, current_time, previous_time, crashed>>

CtxTeardown ==
    /\ ~crashed
    /\ tool = "Context"
    /\ ctx' = Teardown(ctx)
    /\ last' = Op("teardown", FALSE, 0, FALSE)
    /\ UNCHANGED <<tool, tag, input, abort, track, selected, moveIntent, hovered,
                   tooltip, current_time, previous_time, crashed>>

(***************************************************************************)
(* The application around the tools.  Once per frame it turns the pointer  *)
(* events into components: an entity is tagged Activated in the frame it   *)
(* is pressed, Active in every later frame it is held and Deactivated in   *)
(* the frame it is released, each tag carrying the time of the frame; a    *)
(* tagged entity carries the InputPosition2D of the frame, and an Active   *)
(* one may carry Abort.  Before the next frame the application has applied *)
(* and removed the MoveIntent components of the frame.                     *)
(***************************************************************************)
Env == Op("env", FALSE, 0, FALSE)

\* the phases an entity can be in the frame after one in phase p
NextPhases(p) ==
    CASE p = "None"        -> {"None", "Activated"}
      [] p = "Activated"   -> {"Active", "Deactivated"}
      [] p = "Active"      -> {"Active", "Deactivated"}
      [] p = "Deactivated" -> {"None", "Activated"}

Frame(t, in, phase, ab) ==
    /\ ~crashed
    /\ tool # "Context"
    /\ \A e \in Entities : phase[e] \in NextPhases(tag[e].phase)
    /\ \A e \in ab : phase[e] = "Active"
    /\ tag' = [e \in Entities |->
                 IF phase[e] = "None" THEN NoTag ELSE [phase |-> phase[e], time |-> t]]
    /\ input' = [e \in Entities |->
                 IF phase[e] \in {"Activated", "Active"} THEN in ELSE NoInput]
    /\ abort' = ab
    /\ moveIntent' = [e \in Entities |-> NoIntent]
    /\ last' = Env
    /\ UNCHANGED <<tool, track, selected, hovered, tooltip,
                   current_time, previous_time, ctx, crashed>>

ConsumeIntents ==
    /\ ~crashed
    /\ tool = "Context"
    /\ \E e \in Entities : moveIntent[e] # NoIntent
    /\ moveIntent' = [e \in Entities |-> NoIntent]
    /\ last' = Env
    /\ UNCHANGED <<tool, tag, input, abort, track, selected, hovered, tooltip,
                   current_time, previous_time, ctx, crashed>>

(***************************************************************************)
(* The specification.                                                      *)
(***************************************************************************)
\* A track left by an earlier session with another tool: one channel, of a type
\* the current tool does not record, holding one event pressed at time 0
OtherType(t) == IF t = "Rotate" THEN "ScaleEvent" ELSE "RotateEvent"

OtherField(t) == IF t = "Rotate" THEN "scales" ELSE "orientations"

OtherTrack(e, t) ==
    LET t0 == NewTrack(NameOf[e], ColorOf[e])
        t1 == [t0 EXCEPT !.channels = ChannelsAt(@, OtherType(t))]
        ev == Event(1, 1, ColorOf[e], OtherType(t),
                    [f \in {OtherField(t)} |-> <<0>>])
    IN  [t1 EXCEPT !.channels[OtherType(t)] = PushEvent(@, ev)]

Init ==
    /\ tool \in Tools
    /\ tag = [e \in Entities |-> NoTag]
    /\ input = [e \in Entities |-> NoInput]
    /\ abort = {}
    /\ track \in {[e \in Entities |-> NoTrack],
                  [e \in Entities |-> IF e = "a" THEN OtherTrack(e, tool) ELSE NoTrack]}
    /\ selected \in {S \in SUBSET Entities : Cardinality(S) <= 1}
    /\ moveIntent = [e \in Entities |-> NoIntent]
    /\ hovered = {"b"}
    /\ tooltip = {}
    /\ current_time = 0
    /\ previous_time = 0
    /\ ctx = [_entity |-> Null, _state |-> "_None", _input |-> InputPosition2D(0, 0),
              _begin_time |-> 0]
    /\ crashed = FALSE
    /\ last = Op("init", FALSE, 0, FALSE)

Next ==
    \/ \E r \in BOOLEAN : SelectTool(r)
    \/ \E r \in BOOLEAN : TranslateTool(r)
    \/ \E r \in BOOLEAN : RotateTool(r)
    \/ \E r \in BOOLEAN : ScaleTool(r)
    \/ \E r \in BOOLEAN : ScrubTool(r)
    \/ \E e \in Entities : CtxBegin(e)
    \/ \E in \in Inputs : CtxUpdate(in)
    \/ \E e \in Entities, in \in Inputs : CtxUpdateEntity(e, in)
    \/ \E t \in Times : CtxRecord(t)
    \/ CtxFinish
    \/ CtxTeardown
    \/ \E t \in Times, in \in Inputs, ab \in SUBSET Entities :
         \E phase \in [Entities -> {"None", "Activated", "Active", "Deactivated"}] :
            Frame(t, in, phase, ab)
    \/ ConsumeIntents

Spec == Init /\ [][Next]_vars


(***************************************************************************)
(* Vocabulary of the properties.  In an action formula the unprimed        *)
(* variables are the registry before the operation named by last' and the  *)
(* primed ones the registry after it.                                      *)
(***************************************************************************)
RecordingTools == {"TranslateTool", "RotateTool", "ScaleTool"}

AllTools == RecordingTools \cup {"SelectTool", "ScrubTool"}

TypeOf(op) ==
    CASE op = "TranslateTool" -> "TranslateEvent"
      [] op = "RotateTool"    -> "RotateEvent"
      [] op = "ScaleTool"     -> "ScaleEvent"

PressViewOf(op) ==
    CASE op = "SelectTool"    -> SelectView
      [] op = "TranslateTool" -> TranslatePressView
      [] op = "RotateTool"    -> RotatePressView
      [] op = "ScaleTool"     -> ScalePressView
      [] op = "ScrubTool"     -> ScrubPressView

\* the Active entities a hold loop without Abort would visit
Held == {e \in Entities : tag[e].phase = "Active" /\ input[e] # NoInput}

HasEvents(tr, e, k) == tr[e] # NoTrack /\ k \in DOMAIN tr[e].channels

EventsIn(tr, e, k) == IF HasEvents(tr, e, k) THEN tr[e].channels[k].events ELSE <<>>

ChannelTypes(tr, e) == IF tr[e] = NoTrack THEN {} ELSE DOMAIN tr[e].channels

Range(seq) == {seq[i] : i \in DOMAIN seq}

(***************************************************************************)
(* C1: in record mode, the press step of TranslateTool, RotateTool and     *)
(* ScaleTool appends, for every Activated entity of its view, exactly one  *)
(* event to the tool's channel of the entity's track, with time =          *)
(* Activated.time + 1, length = 1 and a payload of one entry; the track is *)
(* created with the entity's name and the channel is created when absent,  *)
(* and an existing track or channel keeps its label, its other channels    *)
(* and all its earlier events.  (Stated of executions free of undefined    *)
(* behaviour in the hold loop of the same execution.)                      *)
(***************************************************************************)
PressAppended(e, k) ==
    LET old == EventsIn(track, e, k)
        new == EventsIn(track', e, k)
    IN  /\ track'[e] # NoTrack
        /\ track'[e].label = IF track[e] = NoTrack THEN NameOf[e] ELSE track[e].label
        /\ ChannelTypes(track', e) = ChannelTypes(track, e) \cup {k}
        /\ \A j \in ChannelTypes(track, e) \ {k} :
               track'[e].channels[j] = track[e].channels[j]
        /\ Len(new) = Len(old) + 1
        /\ SubSeq(new, 1, Len(old)) = old
        /\ Back(new).time = tag[e].time + 1
        /\ Back(new).length = 1
        /\ Back(new).type = k
        /\ PayloadSize(Back(new)) = 1

C1_PressAppendsOneEvent ==
    [][(last'.op \in RecordingTools /\ last'.record /\ ~last'.ub)
          => \A e \in PressViewOf(last'.op) : PressAppended(e, TypeOf(last'.op))]_vars

\* an Activated entity whose channel was reused: it holds an earlier event and
\* the one just pushed
C1_Witness ==
    /\ last.op \in RecordingTools /\ last.record /\ ~last.ub
    /\ \E e \in PressViewOf(last.op) :
          /\ Len(EventsIn(track, e, TypeOf(last.op))) = 2
          /\ Back(EventsIn(track, e, TypeOf(last.op))).time = tag[e].time + 1

(***************************************************************************)
(* C2: in record mode, after any press and hold steps of TranslateTool,    *)
(* RotateTool and ScaleTool, the length of the last event of the tool's    *)
(* channel equals the number of entries of its payload list.               *)
(***************************************************************************)
C2_LengthEqualsPayload ==
    (tool \in {"Translate", "Rotate", "Scale"} /\ ~crashed)
       => \A e \in Entities : \A k \in ChannelTypes(track, e) :
             Back(track[e].channels[k].events).length
                = PayloadSize(Back(track[e].channels[k].events))

(***************************************************************************)
(* C3: at most one entity is Selected, in every state; and after an        *)
(* execution of SelectTool, TranslateTool, RotateTool or ScaleTool whose   *)
(* press loop visited at least one Activated entity, exactly one entity is *)
(* Selected and it is one of those; after TranslateContext.begin(entity)   *)
(* it is that entity.                                                      *)
(***************************************************************************)
C3_OneSelected ==
    /\ Cardinality(selected) <= 1
    /\ [][/\ Cardinality(selected') <= 1
          /\ (last'.op \in RecordingTools \cup {"SelectTool"}
                 /\ PressViewOf(last'.op) # {})
                => \E e \in PressViewOf(last'.op) : selected' = {e}
          /\ last'.op \in {"begin", "update_entity"}
                => selected' = {ctx'._entity}]_vars

\* two entities Activated in the same frame, one of them selected by SelectTool
C3_Witness ==
    /\ last.op = "SelectTool"
    /\ Cardinality(SelectView) = 2
    /\ Cardinality(selected) = 1

(***************************************************************************)
(* C4 (as claimed): a hold step of TranslateTool with record = true on an  *)
(* Active entity that has a Translate event both extends the event with    *)
(* the input delta and issues a MoveIntent carrying that delta.            *)
(***************************************************************************)
\* the last Translate event of e was extended with the delta of its input
Extended(e) ==
    LET old == Back(EventsIn(track, e, "TranslateEvent"))
        new == Back(EventsIn(track', e, "TranslateEvent"))
    IN  /\ Len(EventsIn(track', e, "TranslateEvent")) = Len(EventsIn(track, e, "TranslateEvent"))
        /\ new.time = old.time
        /\ new.length = tag[e].time - old.time + 2
        /\ input[e].delta \in Range(new.data.positions)
        /\ Len(new.data.positions) \in {Len(old.data.positions), Len(old.data.positions) + 1}

TranslateHeld == {e \in TranslateHoldView : HasEvents(track, e, "TranslateEvent")}

C4_RecordsAndMoves ==
    [][(last'.op = "TranslateTool" /\ last'.record /\ ~last'.ub)
          => \A e \in TranslateHeld :
                /\ Extended(e)
                /\ moveIntent'[e] = [x |-> input[e].delta.x, y |-> input[e].delta.y]]_vars

(***************************************************************************)
(* C4 (amended): a hold step of TranslateTool either records or moves.     *)
(* With record = true it extends the last Translate event of every Active  *)
(* entity that has one with the input delta and assigns no MoveIntent;     *)
(* with record = false it assigns every Active entity a MoveIntent         *)
(* carrying the delta and changes no event.                                *)
(***************************************************************************)
C4_RecordsOrMoves ==
    [][/\ (last'.op = "TranslateTool" /\ last'.record /\ ~last'.ub)
            => /\ \A e \in TranslateHeld : Extended(e)
               /\ moveIntent' = moveIntent
       /\ (last'.op = "TranslateTool" /\ ~last'.record /\ ~last'.ub)
            => /\ \A e \in TranslateHoldView :
                    moveIntent'[e] = [x |-> input[e].delta.x, y |-> input[e].delta.y]
               /\ track' = track]_vars

\* a recorded hold: the event of an Active entity grew, and it has no MoveIntent
C4_Witness ==
    /\ last.op = "TranslateTool" /\ last.record /\ ~last.ub
    /\ \E e \in TranslateHoldView :
          /\ HasEvents(track, e, "TranslateEvent")
          /\ Len(Back(EventsIn(track, e, "TranslateEvent")).data.positions) = 2
          /\ moveIntent[e] = NoIntent


(***************************************************************************)
(* C5 (as claimed): over any calls of begin, update, record, finish and    *)
(* teardown, _Active is entered only from _Activated or _Active, and       *)
(* _Deactivated is entered only from _Active.                              *)
(***************************************************************************)
C5_StrictOrder ==
    [][/\ (ctx'._state = "_Active" /\ last'.op = "update")
             => ctx._state \in {"_Activated", "_Active"}
       /\ (ctx'._state = "_Deactivated" /\ ctx._state # "_Deactivated")
             => ctx._state = "_Active"]_vars

(***************************************************************************)
(* C5 (amended): update(input) enters _Active only from _None, _Activated  *)
(* or _Active, never from _Deactivated (update(entity, input) passes       *)
(* through _Activated by calling begin first); _Deactivated is entered     *)
(* only by finish, which teardown calls from _Active and from no other     *)
(* state, while a direct call of finish enters it from any state.          *)
(***************************************************************************)
C5_Order ==
    [][/\ (ctx'._state = "_Active" /\ last'.op = "update")
             => ctx._state \in {"_None", "_Activated", "_Active"}
       /\ (ctx'._state = "_Deactivated" /\ ctx._state # "_Deactivated")
             => \/ last'.op = "finish"
                \/ last'.op = "teardown" /\ ctx._state = "_Active"
       /\ last'.op = "finish" => ctx'._state = "_Deactivated"]_vars

\* update(input) has re-entered _Active after record had aborted to _None: the
\* begin time is above the time of the last recorded input
C5_Witness ==
    /\ last.op = "update"
    /\ ctx._state = "_Active"
    /\ ctx._begin_time = 1
    /\ \E e \in Entities :
          /\ HasEvents(track, e, "TranslateEvent")
          /\ Back(EventsIn(track, e, "TranslateEvent")).time = 1

(***************************************************************************)
(* C6: a hold step in record mode for an Active entity whose track has no  *)
(* channel of the tool's event type leaves that track exactly as it was    *)
(* (no channel created, no event added or changed), for TranslateTool,     *)
(* RotateTool, ScaleTool and the _Active branch of                         *)
(* TranslateContext.record.                                                *)
(***************************************************************************)
\* Active entities of the hold view whose track lacks channel k
HeldWithout(k) ==
    {e \in Held : e \notin abort /\ track[e] # NoTrack /\ k \notin DOMAIN track[e].channels}

C6_MissingChannelOnlyWarns ==
    [][/\ (last'.op \in RecordingTools /\ last'.record)
             => \A e \in HeldWithout(TypeOf(last'.op)) : track'[e] = track[e]
       /\ (last'.op = "record" /\ ctx._state = "_Active"
              /\ ~HasEvents(track, ctx._entity, "TranslateEvent")
              /\ track[ctx._entity] # NoTrack)
             => track'[ctx._entity] = track[ctx._entity]]_vars

\* RotateTool ran over an Active entity whose track has no Rotate channel
C6_Witness ==
    /\ last.op = "RotateTool" /\ last.record
    /\ \E e \in Held :
          /\ e \notin abort
          /\ track[e] # NoTrack
          /\ "RotateEvent" \notin DOMAIN track[e].channels

(***************************************************************************)
(* C7: for every tool, a hold step has no effect on behalf of an Active    *)
(* entity that carries Abort: none of its events is changed, no MoveIntent *)
(* is assigned to it, and the global current time is not changed because   *)
(* of it (so not at all when every Active entity carries Abort).           *)
(***************************************************************************)
C7_AbortHalts ==
    [][(last'.op \in AllTools /\ ~last'.ub)
          => /\ \A e \in Held \cap abort :
                   /\ track'[e] = track[e]
                   /\ moveIntent'[e] = moveIntent[e]
             /\ (Held \subseteq abort) => current_time' = current_time]_vars

(***************************************************************************)
(* C8: ScrubTool records the current time at a press and, at every hold,   *)
(* sets current_time to that recorded time plus input.relative.x / 10,     *)
(* truncated toward zero, however many holds were executed since the       *)
(* press; with no entity Active with an InputPosition2D it leaves          *)
(* current_time unchanged.                                                 *)
(***************************************************************************)
\* q is n / d of C++ for d > 0: the quotient truncated toward zero
IsQuotient(q, n, d) ==
    /\ Abs(q) * d <= Abs(n)
    /\ Abs(n) < (Abs(q) + 1) * d
    /\ (n >= 0 => q >= 0)
    /\ (n <= 0 => q <= 0)

C9_TeardownEndsAny ==
    [][(last'.op = "teardown" /\ ctx._state \in {"_Activated", "_Active"})
          => ctx'._state = "_Deactivated" /\ ctx'._entity = Null]_vars

(***************************************************************************)
(* C9 (amended): teardown called in state _Active leaves the context in    *)
(* state _Deactivated with a null entity, and a record call in that state  *)
(* changes no event; teardown called in any other state, _Activated        *)
(* included, leaves the context as it was.                                 *)
(***************************************************************************)
C9_TeardownEndsActive ==
    /\ (ctx._state = "_Deactivated" => ctx._entity = Null)
    /\ [][/\ (ctx'._state = "_Deactivated" => ctx'._entity = Null)
          /\ (last'.op = "teardown" /\ ctx._state = "_Active")
                => ctx'._state = "_Deactivated" /\ ctx'._entity = Null
          /\ (last'.op = "teardown" /\ ctx._state # "_Active") => ctx' = ctx
          /\ (last'.op = "record" /\ ctx._state = "_Deactivated")
                => track' = track /\ ctx' = ctx]_vars

\* teardown was called between begin and the first update: still _Activated
C9_Witness ==
    /\ last.op = "teardown"
    /\ ctx._state = "_Activated"
    /\ ctx._entity \in Entities

(***************************************************************************)
(* C10: record(time) called in state _Active with time < _begin_time sets  *)
(* the state to _None and changes no event; and whenever a record call in  *)
(* state _Active changes an event, time >= _begin_time and the changed     *)
(* event is the last Translate event of a track, with its length set to    *)
(* time - event.time + 1 and the input stored at `time`.                   *)
(***************************************************************************)
C10_RecordAborts ==
    [][(last'.op = "record" /\ ctx._state = "_Active")
          => /\ last'.time < ctx._begin_time
                  => ctx'._state = "_None" /\ track' = track
             /\ track' # track
                  => /\ last'.time >= ctx._begin_time
                     /\ ctx'._state = "_Active"
                     /\ \E e \in Entities :
                          LET old == Back(EventsIn(track, e, "TranslateEvent"))
                              new == Back(EventsIn(track', e, "TranslateEvent"))
                          IN  /\ HasEvents(track, e, "TranslateEvent")
                              /\ \A o \in Entities \ {e} : track'[o] = track[o]
                              /\ new.time = old.time
                              /\ new.length = last'.time - old.time + 1
                              /\ last'.time \in DOMAIN new.data.input
                              /\ new.data.input[last'.time] = ctx._input]_vars

\* record has aborted: _None with the entity still set, called before _begin_time
C10_Witness ==
    /\ last.op = "record"
    /\ ctx._state = "_None"
    /\ ctx._entity \in Entities
    /\ last.time < ctx._begin_time

(***************************************************************************)
(* C11: executing TranslateTool, RotateTool, ScaleTool or ScrubTool in a   *)
(* frame where the only tagged entities are Deactivated ones leaves every  *)
(* track, channel and event (time, length, payload), the selection and the *)
(* global current time unchanged: an event keeps the length set by its     *)
(* last hold step.                                                         *)
(***************************************************************************)
ReleasingTools == RecordingTools \cup {"ScrubTool"}

OnlyDeactivated ==
    /\ ReleaseView # {}
    /\ \A e \in Entities : tag[e].phase \in {"None", "Deactivated"}

C11_ReleaseAltersNothing ==
    [][(last'.op \in ReleasingTools /\ OnlyDeactivated)
          => /\ track' = track
             /\ selected' = selected
             /\ current_time' = current_time]_vars

\* a recording tool has run its release loop over an entity whose event was
\* extended to length 2 by a hold step, and the event still has that length
C11_Witness ==
    /\ last.op \in RecordingTools
    /\ OnlyDeactivated
    /\ \E e \in ReleaseView :
         /\ e \in selected
         /\ HasEvents(track, e, TypeOf(last.op))
         /\ Back(EventsIn(track, e, TypeOf(last.op))).length = 2
         /\ PayloadSize(Back(EventsIn(track, e, TypeOf(last.op)))) = 2

====
